---- MODULE Spec2Model ----
(***************************************************************************)
(* A model of app.py (FloodPath): the two PAGASA feed workers, the change  *)
(* detection by content hash, the Firestore writes, the worker monitor,    *)
(* the rate limiter and the read handlers (water-level, rainfall, health). *)
(***************************************************************************)
EXTENDS Integers, Sequences, FiniteSets, TLC

(***************************************************************************)
(* Bounds of the model.                                                    *)
(***************************************************************************)
MaxFeedTicks == 1     \* clock advances of the feed specification
MaxTicks == 2         \* clock advances of the service specification
MaxFailures == 2      \* cap of a worker's consecutive-failure counter
MaxRateTicks == 3     \* clock advances of the rate-limiter specification
MaxBurstTicks == 10   \* clock advances of the hourly specification
MaxRequests == 102    \* requests one caller issues in the rate-limiter specification
MaxBackoffFailures == 6  \* cap of the failure counter in the backoff specification

(***************************************************************************)
(* Program constants.                                                      *)
(***************************************************************************)
requests_per_minute == 100
requests_per_hour == 1000
MinuteWindow == 60
HourWindow == 3600
StaleAfter == 600
max_failures == 5
BackoffUnit == 60
ScrapeInterval == 300
PageWait == 15
max_retries == 3
max_navigation_retries == 3
NavigationPause == 10
SecondsPerDay == 86400
SecondsPerMinute == 60
MinutesPerDay == 1440
TickSeconds == StaleAfter                  \* the feed clock advances by the freshness limit
RateTickSeconds == MinuteWindow \div 2     \* the rate-limiter clock advances in half windows
StartTime == 1 * SecondsPerDay             \* day 1, 00:00

Feeds == {"water", "rainfall"}
IPs == {"ip1", "ip2"}

\* Python's None and a present value.
None == <<>>
Some(x) == <<x>>

(***************************************************************************)
(* Timestamp texts.  A text in the form "%Y-%m-%d %H:%M" is the record of  *)
(* its day and its minute of the day; any other text is Garbled.           *)
(***************************************************************************)
TS(day, min) == [ok |-> TRUE, day |-> day, min |-> min]
Garbled == [ok |-> FALSE, day |-> 0, min |-> 0]

\* datetime.now().strftime("%Y-%m-%d %H:%M") at clock value t
FormatMinute(t) == TS(t \div SecondsPerDay, (t % SecondsPerDay) \div SecondsPerMinute)

\* datetime.now().strftime("%Y-%m-%d") at clock value t
FormatDay(t) == t \div SecondsPerDay

\* datetime.strptime(text, "%Y-%m-%d %H:%M") as seconds; defined for text.ok only
ParseMinute(text) == text.day * SecondsPerDay + text.min * SecondsPerMinute

\* the days a date argument or a dated document can name
Days == FormatDay(StartTime) .. FormatDay(StartTime) + 1

(***************************************************************************)
(* calculate_data_hash: md5 of str(data).  str(data) renders every key of  *)
(* every row dict, the 'timestamp' key included.  The digest is modelled   *)
(* as a polynomial digest of that rendering modulo a prime; DigestInjective*)
(* below states that it separates the snapshots of the model.              *)
(***************************************************************************)
StationCode(s) == CASE s = "S1" -> 1 [] s = "S2" -> 2 [] OTHER -> 3
ColCode(c) == CASE c = "a" -> 1 [] c = "b" -> 2 [] OTHER -> 3
TimeCode(t) == IF t.ok THEN 1 + t.day * MinutesPerDay + t.min ELSE 0

\* str(row): the station, the columns and the 'timestamp' key
RowCode(r) == (StationCode(r.station) * 4 + ColCode(r.cols)) * 8192 + TimeCode(r.timestamp)

DigestPrime == 16381
DigestBase == 131

RECURSIVE Digest(_, _)
Digest(data, acc) ==
    IF data = <<>> THEN acc
    ELSE Digest(Tail(data), ((acc * DigestBase) + RowCode(Head(data))) % DigestPrime)

calculate_data_hash(data) == Digest(data, 1)

(***************************************************************************)
(* What a page load can give: the table rows, in page order.               *)
(***************************************************************************)
PageRow(s, c) == [station |-> s, cols |-> c]
PageRows == {<<>>, <<PageRow("S1", "a")>>, <<PageRow("S1", "b")>>,
             <<PageRow("S1", "a"), PageRow("S2", "a")>>}
\* the pages of the service specification, where the content does not matter
ServicePages == {<<PageRow("S1", "a")>>}

\* text of the search-time div: absent, a stale feed time, or not a time
SearchTimeDivs == {None, Some(FormatMinute(StartTime)), Some(Garbled)}

VARIABLES
    now,                   \* wall clock, seconds
    booted,                \* start_scrapers has run
    scraping_active,
    db_ok,                 \* db is not None
    latest_data,           \* latest_water_data, latest_rainfall_data
    last_hash,             \* last_water_hash, last_rainfall_hash
    last_updated,          \* the one module-level last_updated
    promoting,             \* per feed: the promotion a worker is in the middle of
    thread,                \* water_thread, rainfall_thread
    monitor,               \* monitor_thread
    consecutive_failures,  \* the local counter of each running worker
    polls_dead,            \* monitor polls that left a dead worker dead (0..2)
    live_workers,          \* per feed: worker threads started and not yet ended
    sleep_until,           \* per feed: when the time.sleep the worker is in returns
    dated_docs,            \* <collection>_<date>/latest
    latest_doc,            \* <collection>/latest
    dates_docs,            \* <name>_dates/all_dates
    dates_calls,           \* per caller: its update_dates_collection call between get and set
    request_counts,
    handler_threads,       \* per handler thread: its position inside decorated_function
    iter,                  \* the last worker iteration: what it acquired and did
    resp,                  \* the last response sent
    reqlog                 \* per caller: requests issued, and admissions by recency

vars == <<now, booted, scraping_active, db_ok, latest_data, last_hash, last_updated, promoting,
          thread, monitor, consecutive_failures, polls_dead, live_workers, sleep_until, dated_docs,
          latest_doc, dates_docs, dates_calls, request_counts, handler_threads, iter, resp,
          reqlog>>

feedVars == <<latest_data, last_hash, last_updated, promoting>>
storeVars == <<dated_docs, latest_doc, dates_docs, dates_calls>>
threadVars == <<thread, monitor, consecutive_failures, polls_dead, live_workers, sleep_until>>
rateVars == <<request_counts, handler_threads, reqlog>>

(***************************************************************************)
(* Firestore documents.  A date text is its day and whether it carries     *)
(* surrounding whitespace.                                                 *)
(***************************************************************************)
DateText(day) == [day |-> day, pad |-> FALSE]

Collections == {"water_levels", "rainfall_data"}
CollectionOf(f) == IF f = "water" THEN "water_levels" ELSE "rainfall_data"

\* f"{collection_name}_dates"
DatesNames == {"water_levels_dates", "rainfall_data_dates", "rainfall_dates"}
DatesName(collection_name) ==
    CASE collection_name = "water_levels" -> "water_levels_dates"
      [] collection_name = "rainfall_data" -> "rainfall_data_dates"
      [] OTHER -> "rainfall_dates"

Range(s) == {s[i] : i \in DOMAIN s}

\* list.sort(reverse=True) on date texts
RECURSIVE InsertDesc(_, _)
InsertDesc(sorted, d) ==
    IF sorted = <<>> THEN <<d>>
    ELSE IF d.day >= Head(sorted).day THEN <<d>> \o sorted
    ELSE <<Head(sorted)>> \o InsertDesc(Tail(sorted), d)

RECURSIVE SortDesc(_)
SortDesc(s) == IF s = <<>> THEN <<>> ELSE InsertDesc(SortDesc(Tail(s)), Head(s))

\* date_str.strip(), d.strip()
stripNothing(text) == text
strip(text) == [text EXCEPT !.pad = FALSE]

\* The list update_dates_collection sets, from what dates_doc.get() gave
\* (dates_data) and date_str.
NewDates(dates_data, date_str) ==
    LET d == strip(date_str) IN
    IF dates_data # None
    THEN LET old == [i \in DOMAIN dates_data[1] |-> strip(dates_data[1][i])]
         IN IF d \notin Range(old) THEN SortDesc(Append(old, d)) ELSE old
    ELSE <<d>>

\* The dates documents after update_dates_collection(collection_name, date_str),
\* db being available, no Firestore call raising and no other call in between.
update_dates_collection(dd, collection_name, date_str) ==
    LET name == DatesName(collection_name)
    IN [dd EXCEPT ![name] = Some(NewDates(dd[name], date_str))]

\* Who calls update_dates_collection: the two workers and a request to
\* /test-date-update.  A call between its get and its set is the document
\* name, date_str, what the get gave, and the collection the caller
\* updates next ("-" for none).
Callers == Feeds \cup {"request"}
DatesCall(collection_name, date_str, then) ==
    [name |-> DatesName(collection_name), date |-> date_str,
     read |-> dates_docs[DatesName(collection_name)], then |-> then]

\* Where a Firestore call of save_to_firebase raises: nowhere, at the dated
\* document, at the latest document, or inside update_dates_collection.
WriteFailures == {"none", "dated", "latest", "dates"}
\* ... or the step ends between the get and the set of update_dates_collection
WriteOutcomes == WriteFailures \cup {"in_flight"}
\* ... or between the assignments of the promotion itself
PromoteOutcomes == WriteOutcomes \cup {"preempted"}

\* date_str of save_to_firebase: the day of the timestamp, else today's
SaveDate(timestamp, t) == IF timestamp.ok THEN timestamp.day ELSE FormatDay(t)

\* The store after save_to_firebase(collection_name, data, timestamp) and the
\* number of document writes it made.
save_to_firebase(f, data, timestamp, fail) ==
    LET date_str == SaveDate(timestamp, now)
        doc == [data |-> data, last_updated |-> timestamp]
        untouched == [dated |-> dated_docs, latest |-> latest_doc, dates |-> dates_docs, writes |-> 0]
        one == [untouched EXCEPT !.dated = [dated_docs EXCEPT ![<<f, date_str>>] = Some(doc)],
                                 !.writes = 1]
        two == [one EXCEPT !.latest = [latest_doc EXCEPT ![f] = Some(doc)], !.writes = 2]
        three == [two EXCEPT !.dates = update_dates_collection(dates_docs, CollectionOf(f),
                                                                DateText(date_str)),
                             !.writes = 3]
    IN IF ~db_ok \/ fail = "dated" THEN untouched
       ELSE IF fail = "latest" THEN one
       ELSE IF fail \in {"dates", "in_flight"} THEN two
       ELSE three

\* what an iteration used: webdriver instances created and quit, the
\* outcomes of its navigation attempts and the seconds paused between them
NoAcq == [created |-> 0, quit |-> 0, nav |-> <<>>, paused |-> 0]
NoIter == [f |-> "-", kind |-> "none", data |-> <<>>, writes |-> 0,
           first |-> FALSE, work |-> 0, backoff |-> 0, sleep |-> 0, acq |-> NoAcq]
NoResp == [ep |-> "-", code |-> 0, status |-> "-"]
\* the threads that app.run(threaded=True) handles concurrent requests on, and a
\* thread that is not inside decorated_function
HandlerThreads == {"h1", "h2"}
Idle == [pc |-> "idle", ip |-> "-", count |-> 0, ep |-> "-", data |-> None]

NoLog == [n |-> 0, first_at |-> 0, prev_at |-> 0, last_at |-> 0, code |-> 0, recent |-> <<0, 0>>]

Init ==
    /\ now = StartTime
    /\ booted = FALSE
    /\ scraping_active = TRUE
    /\ db_ok \in BOOLEAN
    /\ latest_data = [f \in Feeds |-> None]
    /\ last_hash = [f \in Feeds |-> None]
    /\ last_updated = None
    /\ promoting = [f \in Feeds |-> None]
    /\ thread = [f \in Feeds |-> "none"]
    /\ monitor = "none"
    /\ consecutive_failures = [f \in Feeds |-> 0]
    /\ polls_dead = [f \in Feeds |-> 0]
    /\ live_workers = [f \in Feeds |-> 0]
    /\ sleep_until = [f \in Feeds |-> 0]
    /\ dated_docs = [k \in Feeds \X Days |-> None]
    /\ latest_doc = [f \in Feeds |-> None]
    /\ dates_docs = [n \in DatesNames |-> None]
    /\ dates_calls = [c \in Callers |-> None]
    /\ request_counts = [ip \in IPs |-> None]
    /\ handler_threads = [h \in HandlerThreads |-> Idle]
    /\ iter = NoIter
    /\ resp = NoResp
    /\ reqlog = [ip \in IPs |-> NoLog]

(***************************************************************************)
(* start_scrapers, run once at import.                                     *)
(***************************************************************************)
StartOutcomes == {"started", "no_driver", "quit_raises", "monitor_start_raises"}

start_scrapers ==
    /\ ~booted
    /\ booted' = TRUE
    /\ \E outcome \in StartOutcomes :
         CASE outcome = "started" ->
                /\ thread' = [f \in Feeds |-> "started"]
                /\ live_workers' = [f \in Feeds |-> 1]
                /\ monitor' = "alive"
                /\ UNCHANGED scraping_active
           [] outcome = "monitor_start_raises" ->
                /\ thread' = [f \in Feeds |-> "started"]
                /\ live_workers' = [f \in Feeds |-> 1]
                /\ scraping_active' = FALSE
                /\ UNCHANGED monitor
           [] OTHER ->
                /\ scraping_active' = FALSE
                /\ UNCHANGED <<thread, monitor, live_workers>>
    /\ UNCHANGED <<now, db_ok, feedVars, consecutive_failures, polls_dead, sleep_until,
                   storeVars, rateVars, iter, resp>>

\* start_scrapers in two steps, the workers running in between: up to
\* rainfall_thread.start() ...
start_worker_threads ==
    /\ ~booted
    /\ booted' = TRUE
    /\ thread' = [f \in Feeds |-> "started"]
    /\ live_workers' = [f \in Feeds |-> 1]
    /\ UNCHANGED <<now, scraping_active, db_ok, feedVars, monitor, consecutive_failures,
                   polls_dead, sleep_until, storeVars, rateVars, iter, resp>>

\* ... and monitor_thread.start(), which may raise: except Exception clears
\* the run flag
start_monitor_thread(raises) ==
    /\ booted /\ scraping_active /\ monitor = "none"
    /\ \A f \in Feeds : thread[f] # "none"
    /\ IF raises
       THEN scraping_active' = FALSE /\ UNCHANGED monitor
       ELSE monitor' = "alive" /\ UNCHANGED scraping_active
    /\ UNCHANGED <<now, booted, db_ok, feedVars, thread, consecutive_failures, polls_dead,
                   live_workers, sleep_until, storeVars, rateVars, iter, resp>>

(***************************************************************************)
(* One iteration of the loop of scrape_pagasa_water_level or of            *)
(* scrape_pagasa_rainfall.                                                 *)
(***************************************************************************)
\* The failure paths before any row is read: initialize_webdriver returned
\* None, the navigation failed three times, the table is missing, parsing raised.
FailureKinds == {"nodriver", "naverror", "notable", "parseerror"}

\* the failure paths that leave the try block by an exception
ExceptionKinds == {"naverror", "parseerror"}

\* the failure paths after a page was loaded
PageFailures == {"notable", "parseerror"}

(***************************************************************************)
(* initialize_webdriver.  One retry tries Chrome from PATH and then        *)
(* ChromeDriverManager; each try gives a driver ("ok"), raises before an   *)
(* instance exists ("raises"), or creates an instance whose about:blank    *)
(* test fails ("test_fails").  outcomes gives the two tries of each retry. *)
(***************************************************************************)
DriverTries == {"ok", "raises", "test_fails"}
Instances(try) == IF try = "raises" THEN 0 ELSE 1

RECURSIVE DriverLoop(_, _, _)
DriverLoop(outcomes, retry_count, created) ==
    IF retry_count >= max_retries THEN [driver |-> FALSE, created |-> created]
    ELSE LET try == outcomes[retry_count + 1]
             from_path == created + Instances(try[1])
             from_manager == from_path + Instances(try[2])
         IN IF try[1] = "ok" THEN [driver |-> TRUE, created |-> from_path]
            ELSE IF try[2] = "ok" THEN [driver |-> TRUE, created |-> from_manager]
            ELSE DriverLoop(outcomes, retry_count + 1, from_manager)

initialize_webdriver(outcomes) == DriverLoop(outcomes, 0, 0)

DriverOk == [i \in 1..max_retries |-> <<"ok", "ok">>]
DriverNone == [i \in 1..max_retries |-> <<"raises", "raises">>]

(***************************************************************************)
(* The navigation retry loop.  outcomes[i] tells whether attempt i loads   *)
(* the page.                                                               *)
(***************************************************************************)
\* if navigation_retry_count < max_navigation_retries: sleep and continue
RetryAgainAlways(navigation_retry_count) == TRUE
RetryAgain(navigation_retry_count) == navigation_retry_count < max_navigation_retries

RECURSIVE NavigationLoop(_, _, _)
NavigationLoop(outcomes, navigation_retry_count, paused) ==
    IF navigation_retry_count >= max_navigation_retries
    THEN [ok |-> TRUE, attempts |-> navigation_retry_count, paused |-> paused]
    ELSE IF outcomes[navigation_retry_count + 1]
    THEN [ok |-> TRUE, attempts |-> navigation_retry_count + 1, paused |-> paused]
    ELSE IF RetryAgain(navigation_retry_count + 1)
    THEN NavigationLoop(outcomes, navigation_retry_count + 1, paused + NavigationPause)
    ELSE [ok |-> FALSE, attempts |-> navigation_retry_count + 1, paused |-> paused]

NavOk == [i \in 1..max_navigation_retries |-> TRUE]
NavNever == [i \in 1..max_navigation_retries |-> FALSE]

\* what an iteration with these driver and navigation outcomes used; the
\* finally block quits the driver initialize_webdriver returned
Acquisition(driver_outcomes, nav_outcomes) ==
    LET drv == initialize_webdriver(driver_outcomes)
        nav == NavigationLoop(nav_outcomes, 0, 0)
    IN IF drv.driver
       THEN [created |-> drv.created, quit |-> 1,
             nav |-> SubSeq(nav_outcomes, 1, nav.attempts), paused |-> nav.paused]
       ELSE [created |-> drv.created, quit |-> 0, nav |-> <<>>, paused |-> 0]

Min(a, b) == IF a < b THEN a ELSE b

\* time.sleep(60 * min(consecutive_failures, max_failures))
BackoffUncapped(n) == BackoffUnit * n
Backoff(n) == BackoffUnit * Min(n, max_failures)

\* The seconds a worker sleeps between the end of an iteration's work and the
\* start of the next iteration.  `continue` skips the sleep at the end of the
\* loop body; the except block does not.  At the end of the loop body,
\* next_scrape is five minutes after the work ended.
SleepAfter(kind, backoff) ==
    IF kind \in ExceptionKinds THEN backoff + ScrapeInterval
    ELSE IF kind \in {"nodriver", "notable", "empty"} THEN backoff
    ELSE ScrapeInterval

\* is_alive() of a worker thread; a thread is "started" until its loop has
\* completed an iteration
Running == {"started", "alive"}

\* what an iteration of feed f records of itself
Done(f, kind, data, writes, work, backoff, acq) ==
    [f |-> f, kind |-> kind, data |-> data, writes |-> writes,
     first |-> thread[f] = "started", work |-> work, backoff |-> backoff,
     sleep |-> SleepAfter(kind, backoff), acq |-> acq]

\* consecutive_failures += 1 on a failure path; nothing else is assigned
Failed(f, kind, data, cap, work, acq) ==
    /\ consecutive_failures[f] < cap
    /\ consecutive_failures' = [consecutive_failures EXCEPT ![f] = @ + 1]
    /\ iter' = Done(f, kind, data, 0, work, Backoff(consecutive_failures[f] + 1), acq)
    /\ UNCHANGED <<feedVars, storeVars>>

\* the rows as the loop builds them: every row carries the search time
BuildData(rows, search_time) ==
    [i \in DOMAIN rows |-> [station |-> rows[i].station, cols |-> rows[i].cols,
                            timestamp |-> search_time]]

OtherFeed(f) == IF f = "water" THEN "rainfall" ELSE "water"

\* if new_hash != last_water_hash (last_rainfall_hash)
HashChangedAlways(f, new_hash) == TRUE
HashChangedOtherFeed(f, new_hash) == Some(new_hash) # last_hash[OtherFeed(f)]
HashChanged(f, new_hash) == Some(new_hash) # last_hash[f]

\* if not data
IsEmptyNever(data) == FALSE
IsEmpty(data) == data = <<>>

\* the assignments of a promotion and its save_to_firebase
PromoteIfSaved(f, data, search_time, new_hash, fail, work, acq) ==
    LET saved == save_to_firebase(f, data, search_time, fail) IN
    /\ IF saved.writes = 0
       THEN UNCHANGED feedVars
       ELSE /\ latest_data' = [latest_data EXCEPT ![f] = Some(data)]
            /\ last_updated' = Some(search_time)
            /\ last_hash' = [last_hash EXCEPT ![f] = Some(new_hash)]
            /\ UNCHANGED promoting
    /\ dated_docs' = saved.dated
    /\ latest_doc' = saved.latest
    /\ dates_docs' = saved.dates
    /\ UNCHANGED dates_calls
    /\ iter' = Done(f, "promoted", data, saved.writes, work, 0, acq)
Promote(f, data, search_time, new_hash, fail, work, acq) ==
    LET saved == save_to_firebase(f, data, search_time, fail) IN
    IF fail = "preempted"
    THEN \* the step ends after latest_water_data = data
         /\ latest_data' = [latest_data EXCEPT ![f] = Some(data)]
         /\ promoting' = [promoting EXCEPT ![f] =
                Some([data |-> data, search_time |-> search_time, new_hash |-> new_hash,
                      work |-> work, acq |-> acq, first |-> thread[f] = "started"])]
         /\ iter' = NoIter
         /\ UNCHANGED <<last_updated, last_hash, storeVars>>
    ELSE /\ latest_data' = [latest_data EXCEPT ![f] = Some(data)]
         /\ last_updated' = Some(search_time)
         /\ last_hash' = [last_hash EXCEPT ![f] = Some(new_hash)]
         /\ UNCHANGED promoting
         /\ dated_docs' = saved.dated
         /\ latest_doc' = saved.latest
         /\ dates_docs' = saved.dates
         /\ dates_calls' = IF db_ok /\ fail = "in_flight"
                           THEN [dates_calls EXCEPT ![f] =
                                    Some(DatesCall(CollectionOf(f),
                                                   DateText(SaveDate(search_time, now)), "-"))]
                           ELSE dates_calls
         /\ iter' = Done(f, "promoted", data, saved.writes, work, 0, acq)

\* the rest of a promotion whose first assignment was a step of its own:
\* last_updated = search_time, the hash, and save_to_firebase
PromoteFinish(f) ==
    /\ promoting[f] # None
    /\ LET p == promoting[f][1]
           saved == save_to_firebase(f, p.data, p.search_time, "none")
       IN /\ last_updated' = Some(p.search_time)
          /\ last_hash' = [last_hash EXCEPT ![f] = Some(p.new_hash)]
          /\ dated_docs' = saved.dated
          /\ latest_doc' = saved.latest
          /\ dates_docs' = saved.dates
          /\ iter' = [Done(f, "promoted", p.data, saved.writes, p.work, 0, p.acq)
                         EXCEPT !.first = p.first]
    /\ promoting' = [promoting EXCEPT ![f] = None]
    /\ resp' = NoResp
    /\ UNCHANGED <<now, booted, scraping_active, db_ok, latest_data, dates_calls, threadVars,
                   rateVars>>

Acquired(f, rows, div, env, work, acq) ==
    LET search_time == IF div = None THEN FormatMinute(now) ELSE div[1]
        data == BuildData(rows, search_time)
        new_hash == calculate_data_hash(data)
    IN IF IsEmpty(data)
       THEN Failed(f, "empty", data, env.cap, work, acq)
       ELSE /\ consecutive_failures' = [consecutive_failures EXCEPT ![f] = 0]
            /\ IF HashChanged(f, new_hash)
               THEN \E fail \in env.fails :
                        Promote(f, data, search_time, new_hash, fail, work, acq)
               ELSE /\ iter' = Done(f, "unchanged", data, 0, work, 0, acq)
                    /\ UNCHANGED <<feedVars, storeVars>>

\* What the environment of a worker may produce: the pages and the search-time
\* divs it serves, the outcomes of the driver tries and of the navigation
\* attempts, the failure paths of a loaded page, where a Firestore call
\* raises, the seconds the work of an iteration takes, and the cap of the
\* failure counter.
Env(pages, divs, drivers, navs, kinds, fails, works, cap) ==
    [pages |-> pages, divs |-> divs, drivers |-> drivers, navs |-> navs,
     kinds |-> kinds, fails |-> fails, works |-> works, cap |-> cap]

IterationBody(f, env) ==
    /\ booted /\ scraping_active /\ thread[f] \in Running
    /\ dates_calls[f] = None
    /\ promoting[f] = None
    /\ \E work \in env.works, driver_outcomes \in env.drivers, nav_outcomes \in env.navs :
         LET acq == Acquisition(driver_outcomes, nav_outcomes) IN
         IF ~initialize_webdriver(driver_outcomes).driver
         THEN Failed(f, "nodriver", <<>>, env.cap, work, acq)
         ELSE IF ~NavigationLoop(nav_outcomes, 0, 0).ok
         THEN Failed(f, "naverror", <<>>, env.cap, work, acq)
         ELSE \/ \E kind \in env.kinds : Failed(f, kind, <<>>, env.cap, work, acq)
              \/ \E rows \in env.pages, div \in env.divs :
                     Acquired(f, rows, div, env, work, acq)
    /\ thread' = [thread EXCEPT ![f] = "alive"]
    /\ resp' = NoResp
    /\ UNCHANGED <<now, booted, scraping_active, db_ok, monitor, polls_dead, live_workers,
                   rateVars>>

\* an iteration, whenever the worker gets to it
Iteration(f, env) == IterationBody(f, env) /\ UNCHANGED sleep_until

\* An iteration on the clock: the worker is at `while scraping_active` when the
\* time.sleep of its last iteration has returned, and the time.sleep calls of
\* this iteration return after its work and its sleep.
TimedIteration(f, env) ==
    /\ now >= sleep_until[f]
    /\ IterationBody(f, env)
    /\ sleep_until' = [sleep_until EXCEPT ![f] = now + iter'.work + iter'.sleep]

\* the seconds an iteration's work may take: the page wait, or a slow load
WorkSeconds == {PageWait, 4 * PageWait}

WholeEnv == Env(PageRows, SearchTimeDivs, [1..max_retries -> DriverTries \X DriverTries],
                [1..max_navigation_retries -> BOOLEAN], PageFailures, PromoteOutcomes,
                WorkSeconds, MaxFailures)

scrape_pagasa_water_level == Iteration("water", WholeEnv)
scrape_pagasa_rainfall == Iteration("rainfall", WholeEnv)

(***************************************************************************)
(* The life of the worker threads.                                         *)
(***************************************************************************)
\* `while scraping_active` is false: the worker function returns
WorkerExit(f) ==
    /\ booted /\ ~scraping_active /\ thread[f] \in Running
    /\ thread' = [thread EXCEPT ![f] = "dead"]
    /\ live_workers' = [live_workers EXCEPT ![f] = @ - 1]
    /\ consecutive_failures' = [consecutive_failures EXCEPT ![f] = 0]
    /\ UNCHANGED <<now, booted, scraping_active, db_ok, feedVars, monitor, polls_dead,
                   sleep_until, storeVars, rateVars, iter, resp>>

\* the same on the clock: time.sleep returns before the worker sees the flag
TimedExit(f) == now >= sleep_until[f] /\ WorkerExit(f)

\* something that `except Exception` does not catch ends the worker thread
WorkerDies(f) ==
    /\ booted /\ scraping_active /\ thread[f] \in Running
    /\ thread' = [thread EXCEPT ![f] = "dead"]
    /\ live_workers' = [live_workers EXCEPT ![f] = @ - 1]
    /\ consecutive_failures' = [consecutive_failures EXCEPT ![f] = 0]
    /\ UNCHANGED <<now, booted, scraping_active, db_ok, feedVars, monitor, polls_dead,
                   sleep_until, storeVars, rateVars, iter, resp>>

\* consecutive_failures = 0 at the top of a worker function
InitialFailuresAtCap == max_failures
InitialFailures == 0

\* if not water_thread.is_alive() (rainfall_thread)
NeedsRestartAlways(f) == TRUE
NeedsRestartWaterOnly(f) == f = "water" /\ thread[f] = "dead"
NeedsRestart(f) == thread[f] = "dead"

\* except Exception: the exceptions of a poll that the monitor loop catches;
\* Thread.start() raises a RuntimeError
MonitorCatchesNone == {}
MonitorCatches == {"RuntimeError"}

\* One poll of monitor_threads.  Thread.start() of a restart may raise (raise
\* names the feed whose start raises); the exception ends the poll, so a raise
\* for water skips the rainfall check.
MonitorPoll(raise) ==
    /\ booted /\ scraping_active /\ monitor = "alive"
    /\ raise \in {"none"} \cup {f \in Feeds : thread[f] = "dead"}
    /\ LET restarted(f) == /\ NeedsRestart(f)
                           /\ raise # f
                           /\ (f = "water" \/ raise # "water")
       IN /\ thread' = [f \in Feeds |-> IF restarted(f) THEN "started" ELSE thread[f]]
          /\ live_workers' = [f \in Feeds |-> IF restarted(f) THEN live_workers[f] + 1
                                              ELSE live_workers[f]]
          /\ sleep_until' = [f \in Feeds |-> IF restarted(f) THEN 0 ELSE sleep_until[f]]
          /\ monitor' = IF raise # "none" /\ "RuntimeError" \notin MonitorCatches
                        THEN "dead" ELSE monitor
          /\ consecutive_failures' =
                 [f \in Feeds |-> IF restarted(f) THEN InitialFailures
                                  ELSE consecutive_failures[f]]
          /\ polls_dead' =
                 [f \in Feeds |-> IF thread[f] = "dead" /\ ~restarted(f)
                                  THEN (IF polls_dead[f] < 2 THEN polls_dead[f] + 1 ELSE 2)
                                  ELSE 0]
    /\ UNCHANGED <<now, booted, scraping_active, db_ok, feedVars, storeVars, rateVars,
                   iter, resp>>

monitor_threads == \E raise \in {"none"} \cup Feeds : MonitorPoll(raise)

\* the wall clock of the feed specification
Tick(max_ticks) ==
    /\ booted
    /\ now + TickSeconds <= StartTime + max_ticks * TickSeconds
    /\ now' = now + TickSeconds
    /\ reqlog' = [ip \in IPs |-> [reqlog[ip] EXCEPT !.recent = <<0, 0>>]]
    /\ UNCHANGED <<booted, scraping_active, db_ok, feedVars, threadVars, storeVars,
                   request_counts, handler_threads, iter, resp>>

(***************************************************************************)
(* The read handlers, as the response they compute in the current state.   *)
(***************************************************************************)
\* the `date` query argument: absent, not a "%Y-%m-%d" date, or a date
NoDate == [kind |-> "none", day |-> 0]
BadDate == [kind |-> "bad", day |-> 0]
ADate(day) == [kind |-> "date", day |-> day]
DateArgs == {NoDate, BadDate} \cup {ADate(d) : d \in Days}

Response(code, status, data, updated) ==
    [code |-> code, status |-> status, data |-> data, last_updated |-> updated]

\* WaterLevelData.get and RainfallData.get, after rate_limit admitted the request
get(f, date) ==
    IF date.kind = "bad" THEN Response(400, "error", None, None)
    ELSE IF date.kind = "date"
    THEN IF ~db_ok THEN Response(500, "error", None, None)      \* db is None: AttributeError
         ELSE IF dated_docs[<<f, date.day>>] # None
         THEN Response(200, "success", Some(dated_docs[<<f, date.day>>][1].data),
                       Some(dated_docs[<<f, date.day>>][1].last_updated))
         ELSE Response(404, "error", None, None)
    ELSE IF latest_data[f] = None THEN Response(503, "error", None, None)
    ELSE Response(200, "success", latest_data[f], last_updated)

\* if time_diff > 600
IsStale(time_diff) == time_diff > StaleAfter

\* health_check, after rate_limit admitted the request
health_check ==
    IF ~scraping_active THEN Response(503, "error", None, last_updated)
    ELSE IF last_updated # None /\ ~last_updated[1].ok
    THEN Response(500, "error", None, None)                     \* strptime raises
    ELSE IF last_updated # None /\ IsStale(now - ParseMinute(last_updated[1]))
    THEN Response(200, "warning", None, last_updated)
    ELSE Response(200, "healthy", None, last_updated)

Endpoints == {"water", "rainfall", "health"}

\* the handler behind an endpoint
Handle(ep, date) == IF ep = "health" THEN health_check ELSE get(ep, date)

Sent(ep, r) == [ep |-> ep, code |-> r.code, status |-> r.status]

\* The response of get(f, NoDate) on a handler thread that may be preempted
\* between its reads: 'data': latest_water_data is read first ...
get_data(h, f) ==
    /\ booted
    /\ handler_threads[h].pc = "idle"
    /\ IF latest_data[f] = None
       THEN /\ resp' = Sent(f, Response(503, "error", None, None))
            /\ UNCHANGED handler_threads
       ELSE /\ handler_threads' = [handler_threads EXCEPT ![h] =
                   [Idle EXCEPT !.pc = "read_data", !.ep = f, !.data = latest_data[f]]]
            /\ resp' = NoResp
    /\ iter' = NoIter
    /\ UNCHANGED <<now, booted, scraping_active, db_ok, feedVars, threadVars, storeVars,
                   request_counts, reqlog>>

\* ... and 'last_updated': last_updated after it
get_last_updated(h) ==
    /\ handler_threads[h].pc = "read_data"
    /\ LET r == Response(200, "success", handler_threads[h].data, last_updated)
       IN resp' = Sent(handler_threads[h].ep, r)
    /\ handler_threads' = [handler_threads EXCEPT ![h] = Idle]
    /\ iter' = NoIter
    /\ UNCHANGED <<now, booted, scraping_active, db_ok, feedVars, threadVars, storeVars,
                   request_counts, reqlog>>

\* an admitted request: the decorated function runs and answers
RequestRefreshing ==
    /\ booted
    /\ \E ep \in Endpoints, date \in DateArgs :
         /\ ep = "health" => date = NoDate
         /\ resp' = Sent(ep, Handle(ep, date))
    /\ iter' = NoIter
    /\ last_updated' = Some(FormatMinute(now))
    /\ UNCHANGED <<now, booted, scraping_active, db_ok, latest_data, last_hash, promoting,
                   threadVars, storeVars, rateVars>>
Request ==
    /\ booted
    /\ \E ep \in Endpoints, date \in DateArgs :
         /\ ep = "health" => date = NoDate
         /\ resp' = Sent(ep, Handle(ep, date))
    /\ iter' = NoIter
    /\ UNCHANGED <<now, booted, scraping_active, db_ok, feedVars, threadVars, storeVars,
                   rateVars>>

\* the `date` argument of /test-date-update: absent, or a text, which may
\* carry surrounding whitespace
DateTexts == {[day |-> d, pad |-> p] : d \in Days, p \in BOOLEAN}
TestDateArgs == {None} \cup {Some(t) : t \in DateTexts}

TestDateSent == [ep |-> "test_date_update", code |-> 200, status |-> "success"]

\* test_date_update, up to the get of its first update_dates_collection
\* call; with db None both calls do nothing and the handler answers
test_date_update ==
    /\ booted
    /\ dates_calls["request"] = None
    /\ \E arg \in TestDateArgs :
         LET test_date == IF arg = None THEN DateText(FormatDay(now)) ELSE arg[1]
         IN IF db_ok
            THEN /\ dates_calls' = [dates_calls EXCEPT !["request"] =
                                       Some(DatesCall("water_levels", test_date, "rainfall"))]
                 /\ resp' = NoResp
            ELSE /\ resp' = TestDateSent
                 /\ UNCHANGED dates_calls
    /\ iter' = NoIter
    /\ UNCHANGED <<now, booted, scraping_active, db_ok, feedVars, threadVars, dated_docs,
                   latest_doc, dates_docs, rateVars>>

\* dates_doc.set(...) of a caller's update_dates_collection call, and what the
\* caller does next: the request goes on to its second call and then
\* answers; a worker's save_to_firebase returns
dates_doc_set(caller) ==
    /\ dates_calls[caller] # None
    /\ LET call == dates_calls[caller][1]
           dd == [dates_docs EXCEPT ![call.name] = Some(NewDates(call.read, call.date))]
       IN /\ dates_docs' = dd
          /\ IF call.then = "-"
             THEN /\ dates_calls' = [dates_calls EXCEPT ![caller] = None]
                  /\ resp' = IF caller = "request" THEN TestDateSent ELSE resp
             ELSE /\ dates_calls' = [dates_calls EXCEPT ![caller] =
                         Some([name |-> DatesName(call.then), date |-> call.date,
                               read |-> dd[DatesName(call.then)], then |-> "-"])]
                  /\ resp' = resp
    /\ UNCHANGED <<now, booted, scraping_active, db_ok, feedVars, threadVars, dated_docs,
                   latest_doc, rateVars, iter>>

(***************************************************************************)
(* index: the dates the page offers.                                       *)
(***************************************************************************)
\* the dates document index reads for a feed: db.collection('water_levels_dates'),
\* db.collection('rainfall_dates')
IndexDatesName(f) == IF f = "water" THEN "water_levels_dates" ELSE "rainfall_dates"

\* the 'dates' of that document, [] when it does not exist
IndexDates(f) ==
    IF db_ok /\ dates_docs[IndexDatesName(f)] # None
    THEN dates_docs[IndexDatesName(f)][1]
    ELSE <<>>

\* the days of the collections water_levels_<date> and rainfall_data_<date>
CollectionDays == {d \in Days : \E f \in Feeds : dated_docs[<<f, d>>] # None}

RECURSIVE DaysDesc(_)
DaysDesc(days) ==
    IF days = {} THEN <<>>
    ELSE LET d == CHOOSE x \in days : \A y \in days : y <= x
         IN <<DateText(d)>> \o DaysDesc(days \ {d})

\* available_dates of index: the water-level dates, else the rainfall dates,
\* else the dates of the dated collections; sorted in descending order
index ==
    IF ~db_ok THEN <<>>
    ELSE IF IndexDates("water") # <<>> THEN SortDesc(IndexDates("water"))
    ELSE IF IndexDates("rainfall") # <<>> THEN SortDesc(IndexDates("rainfall"))
    ELSE DaysDesc(CollectionDays)

(***************************************************************************)
(* The feed specification: the two workers, every page and every failure   *)
(* path, with Firestore calls that do not raise.                           *)
(***************************************************************************)
FeedEnv == Env(PageRows, SearchTimeDivs, {DriverOk, DriverNone}, {NavOk, NavNever},
               PageFailures, {"none"}, {PageWait}, MaxFailures)
FeedWater == Iteration("water", FeedEnv)
FeedRainfall == Iteration("rainfall", FeedEnv)

NextFeed == start_scrapers \/ FeedWater \/ FeedRainfall \/ Tick(MaxFeedTicks)

SpecFeed == Init /\ [][NextFeed]_vars

(***************************************************************************)
(* The service specification: the workers on the service pages, the        *)
(* threads' life, the monitor and the read handlers.                       *)
(***************************************************************************)
ServiceEnv == Env(ServicePages, SearchTimeDivs, {DriverOk}, {NavOk}, {}, {"none"},
                  {PageWait}, MaxFailures)
ServiceWater == Iteration("water", ServiceEnv)
ServiceRainfall == Iteration("rainfall", ServiceEnv)

NextService ==
    \/ start_scrapers
    \/ ServiceWater
    \/ ServiceRainfall
    \/ \E f \in Feeds : WorkerExit(f)
    \/ \E f \in Feeds : WorkerDies(f)
    \/ monitor_threads
    \/ Tick(MaxTicks)
    \/ Request

SpecService == Init /\ [][NextService]_vars

(***************************************************************************)
(* rate_limit: the decorator in front of every API handler.                *)
(***************************************************************************)
Window(count, start) == [count |-> count, window_start |-> start]

\* the counters of an address seen for the first time
NewCounts(t) == [minute |-> Window(0, t), hour |-> Window(0, t)]

\* current_time - window_start > 60 (or 3600)
WindowElapsed(t, w, len) == t - w.window_start > len

\* count >= RATE_LIMIT[...]
LimitReachedAbove(w, limit) == w.count > limit
LimitReached(w, limit) == w.count >= limit

\* The counters of one address after decorated_function ran at time t, and
\* whether the request was admitted.
rate_limit(stored, t) ==
    LET c0 == IF stored = None THEN NewCounts(t) ELSE stored[1]
        minute_over == WindowElapsed(t, c0.minute, MinuteWindow)
        c1 == IF minute_over THEN [c0 EXCEPT !.minute = Window(0, t)] ELSE c0
        hour_over == WindowElapsed(t, c1.hour, HourWindow)
        c2 == IF hour_over THEN [c1 EXCEPT !.hour = Window(0, t)] ELSE c1
        c3 == [c2 EXCEPT !.minute.count = @ + 1, !.hour.count = @ + 1]
    IN IF ~minute_over /\ LimitReached(c0.minute, requests_per_minute)
       THEN [counts |-> c0, admitted |-> FALSE]
       ELSE IF ~hour_over /\ LimitReached(c1.hour, requests_per_hour)
       THEN [counts |-> c1, admitted |-> FALSE]
       ELSE [counts |-> c3, admitted |-> TRUE]

TooMany == Response(429, "error", None, None)

\* the key of request_counts: ip = request.remote_addr, whatever the endpoint
CounterKeyShared(ip, ep) == "ip1"
CounterKey(ip, ep) == ip

\* One request of caller ip through rate_limit to a handler.  reqlog keeps,
\* per caller, the number of requests issued, the times of the first, the
\* previous and the last one, the status code of the last one, and the
\* admissions at the previous and at the current clock value.
RateRequest(ip, eps) ==
    /\ booted
    /\ reqlog[ip].n < MaxRequests
    /\ \E ep \in eps :
         LET key == CounterKey(ip, ep)
             r == rate_limit(request_counts[key], now)
             answer == IF r.admitted THEN Handle(ep, NoDate) ELSE TooMany
             log == reqlog[ip]
         IN /\ request_counts' = [request_counts EXCEPT ![key] = Some(r.counts)]
            /\ resp' = Sent(ep, answer)
            /\ reqlog' = [reqlog EXCEPT ![ip] =
                   [n |-> log.n + 1,
                    first_at |-> IF log.n = 0 THEN now ELSE log.first_at,
                    prev_at |-> IF log.n = 0 THEN now ELSE log.last_at,
                    last_at |-> now,
                    code |-> answer.code,
                    recent |-> IF r.admitted THEN <<log.recent[1], log.recent[2] + 1>>
                               ELSE log.recent]]
    /\ iter' = NoIter
    /\ UNCHANGED <<now, booted, scraping_active, db_ok, feedVars, threadVars, storeVars,
                   handler_threads>>

\* The same request on a handler thread that may be preempted: the checks of
\* decorated_function up to the hour limit; an admitted request goes on to the
\* increments.
rate_checks(stored, t) ==
    LET c0 == IF stored = None THEN NewCounts(t) ELSE stored[1]
        minute_over == WindowElapsed(t, c0.minute, MinuteWindow)
        c1 == IF minute_over THEN [c0 EXCEPT !.minute = Window(0, t)] ELSE c0
        hour_over == WindowElapsed(t, c1.hour, HourWindow)
        c2 == IF hour_over THEN [c1 EXCEPT !.hour = Window(0, t)] ELSE c1
    IN IF ~minute_over /\ LimitReached(c0.minute, requests_per_minute)
       THEN [counts |-> c0, admitted |-> FALSE]
       ELSE IF ~hour_over /\ LimitReached(c1.hour, requests_per_hour)
       THEN [counts |-> c1, admitted |-> FALSE]
       ELSE [counts |-> c2, admitted |-> TRUE]

RateCheck(h, ip) ==
    /\ booted
    /\ handler_threads[h].pc = "idle"
    /\ reqlog[ip].n < MaxRequests
    /\ LET r == rate_checks(request_counts[ip], now)
           log == reqlog[ip]
       IN /\ request_counts' = [request_counts EXCEPT ![ip] = Some(r.counts)]
          /\ handler_threads' = [handler_threads EXCEPT ![h] =
                 IF r.admitted THEN [Idle EXCEPT !.pc = "admitted", !.ip = ip] ELSE Idle]
          /\ resp' = IF r.admitted THEN NoResp ELSE Sent("health", TooMany)
          /\ reqlog' = [reqlog EXCEPT ![ip] =
                 [n |-> log.n + 1,
                  first_at |-> IF log.n = 0 THEN now ELSE log.first_at,
                  prev_at |-> IF log.n = 0 THEN now ELSE log.last_at,
                  last_at |-> now,
                  code |-> IF r.admitted THEN log.code ELSE TooMany.code,
                  recent |-> IF r.admitted THEN <<log.recent[1], log.recent[2] + 1>>
                             ELSE log.recent]]
    /\ iter' = NoIter
    /\ UNCHANGED <<now, booted, scraping_active, db_ok, feedVars, threadVars, storeVars>>

\* request_counts[ip]['minute']['count'] += 1: the read of the count
RateLoad(h) ==
    /\ handler_threads[h].pc = "admitted"
    /\ handler_threads' = [handler_threads EXCEPT ![h] =
           [Idle EXCEPT !.pc = "loaded", !.ip = handler_threads[h].ip,
                        !.count = request_counts[handler_threads[h].ip][1].minute.count]]
    /\ UNCHANGED <<now, booted, scraping_active, db_ok, feedVars, threadVars, storeVars,
                   request_counts, reqlog, iter, resp>>

\* ... and the write of the count, the hour count's increment, and the handler
RateStore(h) ==
    /\ handler_threads[h].pc = "loaded"
    /\ LET ip == handler_threads[h].ip
           answer == Handle("health", NoDate)
       IN /\ request_counts' = [request_counts EXCEPT ![ip] =
                 Some([request_counts[ip][1] EXCEPT
                          !.minute.count = handler_threads[h].count + 1,
                          !.hour.count = @ + 1])]
          /\ reqlog' = [reqlog EXCEPT ![ip].code = answer.code]
          /\ resp' = Sent("health", answer)
    /\ handler_threads' = [handler_threads EXCEPT ![h] = Idle]
    /\ iter' = NoIter
    /\ UNCHANGED <<now, booted, scraping_active, db_ok, feedVars, threadVars, storeVars>>

\* the wall clock of the rate-limiter specification
RateTick ==
    /\ booted
    /\ now + RateTickSeconds <= StartTime + MaxRateTicks * RateTickSeconds
    /\ now' = now + RateTickSeconds
    /\ reqlog' = [ip \in IPs |-> [reqlog[ip] EXCEPT !.recent = <<reqlog[ip].recent[2], 0>>]]
    /\ UNCHANGED <<booted, scraping_active, db_ok, feedVars, threadVars, storeVars,
                   request_counts, handler_threads, iter, resp>>

\* the state after an import in which start_scrapers started its threads
InitServing ==
    /\ now = StartTime
    /\ booted = TRUE
    /\ scraping_active = TRUE
    /\ db_ok = TRUE
    /\ latest_data = [f \in Feeds |-> None]
    /\ last_hash = [f \in Feeds |-> None]
    /\ last_updated = None
    /\ promoting = [f \in Feeds |-> None]
    /\ thread = [f \in Feeds |-> "started"]
    /\ monitor = "alive"
    /\ consecutive_failures = [f \in Feeds |-> 0]
    /\ polls_dead = [f \in Feeds |-> 0]
    /\ live_workers = [f \in Feeds |-> 1]
    /\ sleep_until = [f \in Feeds |-> 0]
    /\ dated_docs = [k \in Feeds \X Days |-> None]
    /\ latest_doc = [f \in Feeds |-> None]
    /\ dates_docs = [n \in DatesNames |-> None]
    /\ dates_calls = [c \in Callers |-> None]
    /\ request_counts = [ip \in IPs |-> None]
    /\ handler_threads = [h \in HandlerThreads |-> Idle]
    /\ iter = NoIter
    /\ resp = NoResp
    /\ reqlog = [ip \in IPs |-> NoLog]

\* the one caller of the rate-limiter specification polls the health endpoint
RateCallers == {"ip1"}
NextRate == (\E ip \in RateCallers : RateRequest(ip, {"health"})) \/ RateTick

SpecRate == InitServing /\ [][NextRate]_vars

(***************************************************************************)
(* The backoff specification: the two workers on a page that is there or   *)
(* has no rows, every failure path, and a failure counter that passes      *)
(* max_failures.                                                           *)
(***************************************************************************)
BackoffPages == {<<>>, <<PageRow("S1", "a")>>}
BackoffEnv == Env(BackoffPages, {Some(FormatMinute(StartTime))}, {DriverOk, DriverNone},
                  {NavOk, NavNever}, PageFailures, {"none"}, {PageWait},
                  MaxBackoffFailures)
BackoffWater == Iteration("water", BackoffEnv)
BackoffRainfall == Iteration("rainfall", BackoffEnv)

NextBackoff == start_scrapers \/ BackoffWater \/ BackoffRainfall

SpecBackoff == Init /\ [][NextBackoff]_vars

(***************************************************************************)
(* The life specification: the workers on a page that carries its search   *)
(* time, with the driver failing or not, the threads' life, the monitor    *)
(* and the clock.  The workers keep iterating, the clock keeps advancing,   *)
(* start_scrapers runs, and Thread.start() does not raise for ever.        *)
(***************************************************************************)
LifeDivs == {Some(FormatMinute(StartTime)), Some(Garbled)}
LifeEnv == Env(ServicePages, LifeDivs, {DriverOk, DriverNone}, {NavOk}, {}, {"none"},
               {PageWait}, MaxFailures)
LifeWater == Iteration("water", LifeEnv)
LifeRainfall == Iteration("rainfall", LifeEnv)

NextLife ==
    \/ start_scrapers
    \/ LifeWater
    \/ LifeRainfall
    \/ \E f \in Feeds : WorkerExit(f)
    \/ \E f \in Feeds : WorkerDies(f)
    \/ monitor_threads
    \/ Tick(MaxTicks)

SpecLife ==
    /\ Init /\ [][NextLife]_vars
    /\ WF_vars(start_scrapers)
    /\ WF_vars(LifeWater) /\ WF_vars(LifeRainfall)
    /\ \A f \in Feeds : WF_vars(WorkerExit(f))
    /\ WF_vars(MonitorPoll("none"))
    /\ WF_vars(Tick(MaxTicks))

(***************************************************************************)
(* The store specification: the workers on pages that change, Firestore    *)
(* calls that raise, and requests to /test-date-update, with the get and   *)
(* the set of update_dates_collection as separate steps.                   *)
(***************************************************************************)
StorePages == {<<PageRow("S1", "a")>>, <<PageRow("S1", "b")>>}
StoreEnv == Env(StorePages, {Some(FormatMinute(StartTime))}, {DriverOk}, {NavOk}, {},
                WriteOutcomes, {PageWait}, MaxFailures)
StoreWater == Iteration("water", StoreEnv)
StoreRainfall == Iteration("rainfall", StoreEnv)

NextStore ==
    \/ start_scrapers
    \/ StoreWater
    \/ StoreRainfall
    \/ test_date_update
    \/ \E caller \in Callers : dates_doc_set(caller)

SpecStore == Init /\ [][NextStore]_vars

(***************************************************************************)
(* The callers specification: two callers, each requesting any of the      *)
(* three rate-limited endpoints, at one clock value.                       *)
(***************************************************************************)
NextCallers == \E ip \in IPs : RateRequest(ip, Endpoints)

SpecCallers == InitServing /\ [][NextCallers]_vars

(***************************************************************************)
(* The acquisition specification: the two workers on the service page,     *)
(* with every outcome of the driver tries and of the navigation attempts.  *)
(***************************************************************************)
\* the two tries of one retry, in the acquisition specification
AcquireTries == {<<"ok", "ok">>, <<"test_fails", "ok">>, <<"raises", "test_fails">>,
                 <<"raises", "raises">>}
\* the driver outcomes: every retry alike, or a driver at the last retry only
AcquireDrivers ==
    {[i \in 1..max_retries |-> try] : try \in AcquireTries}
        \cup {[i \in 1..max_retries |-> IF i < max_retries THEN <<"raises", "test_fails">>
                                         ELSE <<"ok", "ok">>]}
AcquireEnv == Env(ServicePages, {Some(FormatMinute(StartTime))},
                  AcquireDrivers,
                  [1..max_navigation_retries -> BOOLEAN], PageFailures, {"none"},
                  {PageWait}, MaxFailures)
AcquireWater == Iteration("water", AcquireEnv)
AcquireRainfall == Iteration("rainfall", AcquireEnv)

NextAcquire == start_scrapers \/ AcquireWater \/ AcquireRainfall

SpecAcquire == Init /\ [][NextAcquire]_vars

(***************************************************************************)
(* The gateway specification: the water-level worker on the service pages, *)
(* requests to the three endpoints with and without a date, and one caller *)
(* who goes through rate_limit until it is rejected.                       *)
(***************************************************************************)
GatewayEnv == Env(ServicePages, {Some(FormatMinute(StartTime))}, {DriverOk}, {NavOk}, {},
                  {"none"}, {PageWait}, MaxFailures)
GatewayWater == Iteration("water", GatewayEnv)

NextGateway ==
    \/ start_scrapers
    \/ GatewayWater
    \/ Request
    \/ \E ip \in RateCallers : RateRequest(ip, Endpoints)

SpecGateway == Init /\ [][NextGateway]_vars

(***************************************************************************)
(* The threaded specification: requests of one caller handled on two       *)
(* threads, at one clock value.                                            *)
(***************************************************************************)
NextThreaded ==
    \/ \E h \in HandlerThreads, ip \in RateCallers : RateCheck(h, ip)
    \/ \E h \in HandlerThreads : RateLoad(h)
    \/ \E h \in HandlerThreads : RateStore(h)

SpecThreaded == InitServing /\ [][NextThreaded]_vars

(***************************************************************************)
(* The cache specification: the water-level worker on pages whose search   *)
(* time changes, its promotion in one step or in two, and a handler thread *)
(* reading the latest data in two steps.                                   *)
(***************************************************************************)
CachePages == {<<PageRow("S1", "a")>>, <<PageRow("S1", "b")>>}
CacheDivs == {Some(FormatMinute(StartTime)), Some(FormatMinute(StartTime + SecondsPerMinute))}
CacheEnv == Env(CachePages, CacheDivs, {DriverOk}, {NavOk}, {}, {"none", "preempted"},
                {PageWait}, MaxFailures)
CacheWater == Iteration("water", CacheEnv)

NextCache ==
    \/ start_scrapers
    \/ CacheWater
    \/ PromoteFinish("water")
    \/ \E h \in HandlerThreads : get_data(h, "water")
    \/ \E h \in HandlerThreads : get_last_updated(h)

SpecCache == Init /\ [][NextCache]_vars

(***************************************************************************)
(* The shutdown specification: the workers on the clock, started before    *)
(* monitor_thread.start() runs and raises or not.                          *)
(***************************************************************************)
ShutdownEnv == Env(ServicePages, {Some(FormatMinute(StartTime))}, {DriverOk, DriverNone},
                   {NavOk, NavNever}, {}, {"none"}, {PageWait}, MaxFailures)
ShutdownWater == TimedIteration("water", ShutdownEnv)
ShutdownRainfall == TimedIteration("rainfall", ShutdownEnv)

NextShutdown ==
    \/ start_worker_threads
    \/ \E raises \in BOOLEAN : start_monitor_thread(raises)
    \/ ShutdownWater
    \/ ShutdownRainfall
    \/ \E f \in Feeds : TimedExit(f)
    \/ Tick(MaxTicks)

SpecShutdown == Init /\ [][NextShutdown]_vars

(***************************************************************************)
(* The hourly specification: one caller who uses up minute windows, a      *)
(* clock that advances by a window and a half, and, once the hour limit is *)
(* reached, single requests.                                               *)
(***************************************************************************)
\* the counters after n more requests at time t, one after the other
RECURSIVE AfterRequests(_, _, _)
AfterRequests(stored, t, n) ==
    IF n = 0 THEN stored
    ELSE AfterRequests(Some(rate_limit(stored, t).counts), t, n - 1)

\* the requests of one burst: a tenth of a minute window
BurstSize == requests_per_minute \div 10

\* BurstSize requests of caller ip in a row at one clock value;
\* reqlog logs the requests that are issued one by one
RateBurst(ip) ==
    /\ booted
    /\ IF request_counts[ip] = None THEN TRUE
       ELSE ~LimitReached(request_counts[ip][1].hour, requests_per_hour)
    /\ request_counts' = [request_counts EXCEPT ![ip] =
           AfterRequests(request_counts[ip], now, BurstSize)]
    /\ request_counts'[ip] # request_counts[ip]
    /\ resp' = Sent("health", Handle("health", NoDate))
    /\ iter' = NoIter
    /\ UNCHANGED <<now, booted, scraping_active, db_ok, feedVars, threadVars, storeVars,
                   handler_threads, reqlog>>

\* a single request of a caller whose hour limit is reached
HourlyRequest(ip) ==
    /\ request_counts[ip] # None
    /\ LimitReached(request_counts[ip][1].hour, requests_per_hour)
    /\ RateRequest(ip, {"health"})

\* the wall clock of the hourly specification
BurstTick ==
    /\ booted
    /\ now + MinuteWindow + RateTickSeconds
          <= StartTime + MaxBurstTicks * (MinuteWindow + RateTickSeconds)
    /\ now' = now + MinuteWindow + RateTickSeconds
    /\ reqlog' = [ip \in IPs |-> [reqlog[ip] EXCEPT !.recent = <<0, 0>>]]
    /\ UNCHANGED <<booted, scraping_active, db_ok, feedVars, threadVars, storeVars,
                   request_counts, handler_threads, iter, resp>>

NextHourly ==
    \/ \E ip \in RateCallers : RateBurst(ip)
    \/ \E ip \in RateCallers : HourlyRequest(ip)
    \/ BurstTick

SpecHourly == InitServing /\ [][NextHourly]_vars

(***************************************************************************)
(* The whole program.                                                      *)
(***************************************************************************)
Next ==
    \/ start_scrapers
    \/ start_worker_threads
    \/ \E raises \in BOOLEAN : start_monitor_thread(raises)
    \/ scrape_pagasa_water_level
    \/ scrape_pagasa_rainfall
    \/ \E f \in Feeds : WorkerExit(f)
    \/ \E f \in Feeds : WorkerDies(f)
    \/ monitor_threads
    \/ Tick(MaxTicks)
    \/ Request
    \/ test_date_update
    \/ \E caller \in Callers : dates_doc_set(caller)
    \/ \E ip \in IPs : RateRequest(ip, Endpoints)
    \/ \E h \in HandlerThreads, ip \in IPs : RateCheck(h, ip)
    \/ \E h \in HandlerThreads : RateLoad(h)
    \/ \E h \in HandlerThreads : RateStore(h)
    \/ RateTick
    \/ \E f \in Feeds : PromoteFinish(f)
    \/ \E h \in HandlerThreads, f \in Feeds : get_data(h, f)
    \/ \E h \in HandlerThreads : get_last_updated(h)
    \/ \E ip \in IPs : RateBurst(ip)
    \/ BurstTick

Spec == Init /\ [][Next]_vars

(***************************************************************************)
(* Properties of the feed workers (checked under SpecFeed).                *)
(***************************************************************************)
\* A step of SpecFeed that is an iteration of feed f: every other step moves
\* the clock or runs start_scrapers.
IterStep(f) == iter'.f = f /\ now' = now /\ booted' = booted

\* the promotion of the snapshot an iteration of f acquired
PromotedStep(f) ==
    LET data == iter'.data
        search_time == data[1].timestamp
        doc == Some([data |-> data, last_updated |-> search_time])
    IN /\ iter'.kind = "promoted"
       /\ latest_data' = [latest_data EXCEPT ![f] = Some(data)]
       /\ last_hash' = [last_hash EXCEPT ![f] = Some(calculate_data_hash(data))]
       /\ last_updated' = Some(search_time)
       /\ iter'.writes = IF db_ok THEN 3 ELSE 0
       /\ db_ok => /\ latest_doc'[f] = doc
                   /\ dated_docs'[<<f, SaveDate(search_time, now)>>] = doc

\* an iteration that promotes nothing: no assignment, no save_to_firebase
NotPromotedStep ==
    /\ iter'.kind # "promoted"
    /\ iter'.writes = 0
    /\ UNCHANGED <<feedVars, storeVars>>

\* C1: an iteration promotes the snapshot it acquired (latest data, hash and
\* last_updated replaced, save_to_firebase called) if and only if the snapshot
\* has at least one reading and its hash differs from the feed's stored hash,
\* or the feed has no stored hash yet.
C1_PromotedIffChanged ==
    [][\A f \in Feeds : IterStep(f) =>
          IF iter'.data # <<>> /\ Some(calculate_data_hash(iter'.data)) # last_hash[f]
          THEN PromotedStep(f)
          ELSE NotPromotedStep]_vars

\* a promotion over an earlier accepted snapshot of the same feed
C1_Witness ==
    /\ iter.kind = "promoted"
    /\ latest_data[iter.f] = Some(iter.data)
    /\ last_updated = Some(FormatMinute(StartTime + TickSeconds))
    /\ iter.data = <<[station |-> "S1", cols |-> "b",
                      timestamp |-> FormatMinute(StartTime + TickSeconds)]>>

\* C2: an iteration that acquires a snapshot identical to the feed's
\* last-accepted one makes no Firestore write and leaves the latest data, the
\* stored hash and last_updated unchanged.
C2_IdenticalSnapshotNoWrites ==
    [][\A f \in Feeds : IterStep(f) /\ Some(iter'.data) = latest_data[f] =>
          /\ iter'.writes = 0
          /\ UNCHANGED <<feedVars, storeVars>>]_vars

\* an iteration found the accepted snapshot again, with the database available
C2_Witness ==
    /\ iter.kind = "unchanged"
    /\ Some(iter.data) = latest_data[iter.f]
    /\ db_ok
    /\ latest_doc[iter.f] # None

\* two snapshots whose rows agree in every station field
SameReadings(d1, d2) ==
    /\ Len(d1) = Len(d2)
    /\ \A i \in DOMAIN d1 : d1[i].station = d2[i].station /\ d1[i].cols = d2[i].cols

\* C3: the hash excludes the capture timestamp: a snapshot whose readings
\* agree with the last-accepted one in every station field, whatever the two
\* capture timestamps (here: both in the "%Y-%m-%d %H:%M" form), has the same
\* hash and is not promoted.
C3_HashExcludesTimestamp ==
    [][\A f \in Feeds :
          (/\ IterStep(f)
           /\ iter'.data # <<>>
           /\ latest_data[f] # None
           /\ SameReadings(iter'.data, latest_data[f][1])
           /\ iter'.data[1].timestamp.ok
           /\ latest_data[f][1][1].timestamp.ok)
          => /\ Some(calculate_data_hash(iter'.data)) = last_hash[f]
             /\ NotPromotedStep]_vars

\* C4: what getLatest returns for a feed is the readings and the capture
\* timestamp of that feed's most recently accepted snapshot.
C4_LatestIsOwnAcceptedSnapshot ==
    \A f \in Feeds : latest_data[f] # None =>
        get(f, NoDate) = Response(200, "success", latest_data[f],
                                  Some(latest_data[f][1][1].timestamp))

\* C5: an acquisition without a table or without rows is never promoted: it
\* changes neither the feed state nor the store, and counts as one failure.
C5_EmptyNeverPromoted ==
    [][\A f \in Feeds : IterStep(f) /\ iter'.data = <<>> =>
          /\ NotPromotedStep
          /\ iter'.kind \in FailureKinds \cup {"empty"}
          /\ consecutive_failures'[f] = consecutive_failures[f] + 1]_vars

\* a table without rows met a feed that has a stored hash
C5_Witness ==
    /\ iter.kind = "empty"
    /\ last_hash[iter.f] # None
    /\ consecutive_failures[iter.f] >= 1

(***************************************************************************)
(* Properties of rate_limit (checked under SpecRate).                      *)
(***************************************************************************)
\* C6: of the requests one caller issues one after the other, the first 100
\* inside the 60 seconds after the first one are admitted, every later one
\* inside those 60 seconds is answered 429, and the first request issued
\* after those 60 seconds is admitted.
C6_MinuteLimitAndReset ==
    \A ip \in IPs :
        LET log == reqlog[ip]
            in_window(t) == t - log.first_at <= MinuteWindow
        IN log.n >= 1 =>
            /\ (log.n <= requests_per_minute /\ in_window(log.last_at)) => log.code # 429
            /\ (log.n > requests_per_minute /\ in_window(log.last_at)) => log.code = 429
            /\ (in_window(log.prev_at) /\ ~in_window(log.last_at)) => log.code # 429

\* 100 admitted, the 101st rejected, the 102nd issued after the window and admitted
C6_Witness ==
    \E ip \in IPs :
        /\ reqlog[ip].n = requests_per_minute + 2
        /\ request_counts[ip][1].hour.count = requests_per_minute + 1
        /\ request_counts[ip][1].minute = Window(1, reqlog[ip].last_at)
        /\ reqlog[ip].prev_at - reqlog[ip].first_at <= MinuteWindow
        /\ reqlog[ip].last_at - reqlog[ip].first_at > MinuteWindow
        /\ reqlog[ip].code # 429

\* C7: the limit is rolling: in every interval of 60 seconds, whatever its
\* start, at most 100 requests of one caller are admitted.  (recent holds the
\* admissions at the previous and at the current clock value, which lie half
\* a window apart.)
C7_RollingMinuteLimit ==
    \A ip \in IPs : reqlog[ip].recent[1] + reqlog[ip].recent[2] <= requests_per_minute

(***************************************************************************)
(* Properties of the read handlers (checked under SpecService).            *)
(***************************************************************************)
\* C8: for an admitted request with a date argument, on either feed: a date
\* that is not in the YYYY-MM-DD form gives 400, and a date for which no
\* dated document is stored gives 404, in every state of the running service.
C8_BadDate400MissingDate404 ==
    booted =>
        \A f \in Feeds, date \in DateArgs :
            /\ date.kind = "bad" => get(f, date).code = 400
            /\ (date.kind = "date" /\ dated_docs[<<f, date.day>>] = None)
                   => get(f, date).code = 404

AllAlive == \A f \in Feeds : thread[f] \in Running

\* the most recent accepted timestamp is at most 10 minutes old
Fresh ==
    /\ last_updated # None
    /\ last_updated[1].ok
    /\ now - ParseMinute(last_updated[1]) <= StaleAfter

\* C9: health_check answers 'healthy' only when both workers are alive and
\* the most recent accepted timestamp is within 10 minutes of now; with the
\* workers alive and a timestamp older than that it answers 'warning'.
C9_HealthyOnlyAliveAndFresh ==
    booted =>
        /\ health_check.status = "healthy" => AllAlive /\ Fresh
        /\ (scraping_active /\ AllAlive /\ last_updated # None /\ last_updated[1].ok /\ ~Fresh)
               => health_check.status = "warning"

\* C10: health_check answers 'error' whenever scraping_active is false, and
\* whenever a worker has stayed dead over more than one poll of the monitor.
C10_ErrorWhenStoppedOrDead ==
    booted =>
        /\ ~scraping_active => health_check.status = "error"
        /\ (\E f \in Feeds : thread[f] = "dead" /\ polls_dead[f] >= 2)
               => health_check.status = "error"

(***************************************************************************)
(* Properties of the workers' sleeps (checked under SpecBackoff, SpecFeed). *)
(***************************************************************************)
FailedKinds == FailureKinds \cup {"empty"}

\* C12: the N-th consecutive failed iteration of a worker (N counted from the
\* worker's start or from its last iteration that acquired a reading) sleeps a
\* backoff of 60*N seconds for N <= 5 and of 300 seconds for N >= 5; every
\* failure path adds exactly one to the counter, and an iteration that
\* acquired a reading sets it to 0.
C12_BackoffByFailureCount ==
    [][\A f \in Feeds : IterStep(f) =>
          LET N == consecutive_failures[f] + 1 IN
          IF iter'.kind \in FailedKinds
          THEN /\ consecutive_failures'[f] = N
               /\ iter'.backoff = IF N <= max_failures THEN BackoffUnit * N
                                  ELSE BackoffUnit * max_failures
          ELSE /\ consecutive_failures'[f] = 0
               /\ iter'.backoff = 0]_vars

\* a sixth consecutive failure, on the missing-table path
C12_Witness ==
    /\ iter.kind = "notable"
    /\ consecutive_failures[iter.f] = max_failures + 1
    /\ iter.backoff = BackoffUnit * max_failures

\* C13: after an iteration that acquired readings (promoted or unchanged) and
\* whose work took d seconds, the worker sleeps 300 - d seconds, so that the
\* next iteration starts 300 seconds after this one started.
C13_SleepToFiveMinuteGrid ==
    [][\A f \in Feeds : IterStep(f) /\ iter'.kind \in {"promoted", "unchanged"} =>
          /\ iter'.sleep = ScrapeInterval - iter'.work
          /\ iter'.work + iter'.sleep = ScrapeInterval]_vars

(***************************************************************************)
(* Properties of the running service in time (checked under SpecLife).     *)
(***************************************************************************)
\* a step that is an iteration of the worker of feed f
WorkerStep(f) ==
    /\ iter'.f = f
    /\ thread[f] \in Running
    /\ thread' = [thread EXCEPT ![f] = "alive"]
    /\ UNCHANGED <<now, booted, polls_dead>>

\* a step that accepts a snapshot
Accepted == last_hash' # last_hash

\* C11: in every execution in which from some point on no snapshot is
\* accepted (no snapshot was ever accepted included), health_check from some
\* point on answers 'warning' or 'error' and never 'healthy' again.
C11_StoppedCollectingIsReported ==
    (<>[][~Accepted]_vars) => <>[](booted => health_check.status # "healthy")

\* C14: a worker thread that has terminated while scraping_active is set is
\* eventually replaced by a live one.
C14_DeadWorkerReplaced ==
    \A f \in Feeds :
        (scraping_active /\ thread[f] = "dead") ~> (thread[f] \in Running)

\* a restarted worker next to one that still runs
C14_Witness ==
    \E f \in Feeds :
        /\ thread[f] = "started"
        /\ latest_data[f] # None
        /\ thread[OtherFeed(f)] = "alive"

\* C15: the restart of a feed's worker by the monitor leaves the feed's latest
\* data, its stored hash and last_updated unchanged and starts the worker with
\* a failure counter of 0; the first iteration of the restarted worker that
\* acquires the last-accepted snapshot again does not promote it.
C15_RestartKeepsFeedState ==
    [][\A f \in Feeds :
          /\ (thread[f] = "dead" /\ thread'[f] # "dead") =>
                 /\ thread'[f] = "started"
                 /\ consecutive_failures'[f] = 0
                 /\ UNCHANGED <<feedVars, storeVars>>
          /\ (WorkerStep(f) /\ iter'.first /\ Some(iter'.data) = latest_data[f]) =>
                 NotPromotedStep]_vars

\* the first iteration of a restarted worker found the accepted snapshot again
C15_Witness ==
    /\ iter.first
    /\ iter.kind = "unchanged"
    /\ latest_data[iter.f] = Some(iter.data)
    /\ thread[iter.f] = "alive"

\* C16: no failure of the browser or of an acquisition, in the probe of
\* start_scrapers or in a worker iteration, clears scraping_active or leaves a
\* feed without a worker; each feed's acquisition is attempted again and again.
C16_EveryFailureRetried ==
    /\ [](booted => scraping_active)
    /\ \A f \in Feeds : [](booted => <>(thread[f] \in Running))
    /\ \A f \in Feeds : []<><<WorkerStep(f)>>_vars

(***************************************************************************)
(* Properties of the store (checked under SpecStore).                      *)
(***************************************************************************)
\* C17: a promotion whose Firestore writes fail, or that finds no database,
\* is not rolled back: the latest data and the stored hash are the new
\* snapshot, a request for the latest data gets it, and the failure counter
\* is 0; a promotion whose writes succeed leaves the snapshot of the cache in
\* the feed's latest document and in its dated document.
C17_FailedWriteKeepsPromotion ==
    [][\A f \in Feeds : (WorkerStep(f) /\ iter'.kind = "promoted") =>
          LET data == iter'.data
              search_time == data[1].timestamp
              doc == Some([data |-> data, last_updated |-> search_time])
          IN /\ latest_data'[f] = Some(data)
             /\ last_hash'[f] = Some(calculate_data_hash(data))
             /\ get(f, NoDate)' = Response(200, "success", Some(data), Some(search_time))
             /\ consecutive_failures'[f] = 0
             /\ iter'.writes >= 2 =>
                    /\ latest_doc'[f] = doc
                    /\ latest_doc'[f][1].data = latest_data'[f][1]
                    /\ dated_docs'[<<f, SaveDate(search_time, now)>>] = doc]_vars

\* a promotion over a stored snapshot whose first write raised: the cache is
\* ahead of the store
C17_Witness ==
    /\ iter.kind = "promoted"
    /\ iter.writes = 0
    /\ db_ok
    /\ latest_data[iter.f] = Some(iter.data)
    /\ latest_doc[iter.f] # None
    /\ latest_doc[iter.f][1].data # iter.data

\* C18: in every stored dates list, no entry carries surrounding whitespace
\* and the entries are in strictly descending order, so that every date
\* occurs once, whatever calls of update_dates_collection were made.
C18_DatesUniqueStrippedDescending ==
    \A name \in DatesNames : dates_docs[name] # None =>
        LET dates == dates_docs[name][1] IN
        /\ \A i \in DOMAIN dates : ~dates[i].pad
        /\ \A i, j \in DOMAIN dates : i < j => dates[i].day > dates[j].day

\* a request with a date in surrounding whitespace found that date in the
\* water_levels list and is on its way to the rainfall list, which has it too
C18_Witness ==
    /\ dates_calls["request"] # None
    /\ dates_calls["request"][1].date.pad
    /\ dates_calls["request"][1].then = "-"
    /\ dates_calls["request"][1].read = Some(<<strip(dates_calls["request"][1].date)>>)
    /\ Len(dates_docs["water_levels_dates"][1]) = 2

\* C19: under every interleaving of the update_dates_collection calls of the
\* workers and of requests to /test-date-update, a stored dates list never
\* loses a date and never gets shorter.
C19_DatesNeverRemoved ==
    [][\A name \in DatesNames : dates_docs[name] # None =>
          /\ dates_docs'[name] # None
          /\ Range(dates_docs[name][1]) \subseteq Range(dates_docs'[name][1])
          /\ Len(dates_docs'[name][1]) >= Len(dates_docs[name][1])]_vars

(***************************************************************************)
(* Properties of the rate limiter's keys (checked under SpecCallers).      *)
(***************************************************************************)
\* a step that is a request of caller ip
RequestOf(ip) == reqlog'[ip].n = reqlog[ip].n + 1

\* C20: a request of a caller, to whichever of the three endpoints, is
\* admitted or rejected by that caller's own counters and, when admitted,
\* adds one to that caller's minute and hour counters; it changes neither the
\* counters nor the log of any other caller.
C20_KeyedByCallerOnly ==
    [][\A ip \in IPs : RequestOf(ip) =>
          LET r == rate_limit(request_counts[ip], now)
              old == IF request_counts[ip] = None THEN NewCounts(now)
                     ELSE request_counts[ip][1]
          IN /\ resp'.ep \in Endpoints
             /\ (resp'.code = 429) <=> ~r.admitted
             /\ request_counts'[ip] = Some(r.counts)
             /\ r.admitted => /\ r.counts.minute.count = old.minute.count + 1
                              /\ r.counts.hour.count = old.hour.count + 1
             /\ \A other \in IPs \ {ip} :
                    /\ request_counts'[other] = request_counts[other]
                    /\ reqlog'[other] = reqlog[other]]_vars

\* ip1 is over its limit and its last request was answered 429; after that,
\* the second request of ip2, to the rainfall endpoint, was admitted
C20_Witness ==
    /\ reqlog["ip1"].n > requests_per_minute
    /\ reqlog["ip1"].code = 429
    /\ request_counts["ip1"][1].minute.count = requests_per_minute
    /\ resp = [ep |-> "rainfall", code |-> 503, status |-> "error"]
    /\ reqlog["ip2"].n = 2
    /\ reqlog["ip2"].code = 503
    /\ request_counts["ip2"][1].minute.count = 2

(***************************************************************************)
(* Properties of one iteration's steps (checked under SpecFeed,            *)
(* SpecBackoff and SpecAcquire).                                           *)
(***************************************************************************)
\* C22: a step of the worker of one feed leaves the state of the other feed
\* unchanged: its latest data, its stored hash, and the last-accepted
\* timestamp that is returned with its data.
C22_WorkersShareNoState ==
    [][\A f \in Feeds : IterStep(f) =>
          LET g == OtherFeed(f) IN
          /\ latest_data'[g] = latest_data[g]
          /\ last_hash'[g] = last_hash[g]
          /\ get(g, NoDate)' = get(g, NoDate)]_vars

\* C23: after a failed iteration, on every failure path, the worker sleeps
\* the backoff and nothing more before its next acquisition.
C23_FailureSleepsBackoffOnly ==
    [][\A f \in Feeds : (IterStep(f) /\ iter'.kind \in FailedKinds) =>
          /\ iter'.backoff = BackoffUnit * Min(consecutive_failures'[f], max_failures)
          /\ iter'.sleep = iter'.backoff]_vars

\* C24: an iteration that got a driver makes between 1 and 3 navigation
\* attempts; every attempt but the last one failed and was followed by a
\* pause of 10 seconds, and no pause follows the last one; the iteration
\* fails by navigation exactly when 3 attempts were made and the third failed
\* too, and then its failure counter grows by one.
C24_NavigationRetries ==
    [][\A f \in Feeds : (IterStep(f) /\ iter'.kind # "nodriver") =>
          LET nav == iter'.acq.nav
              n == Len(nav)
          IN /\ n \in 1..max_navigation_retries
             /\ \A i \in 1..(n - 1) : ~nav[i]
             /\ iter'.acq.paused = NavigationPause * (n - 1)
             /\ (iter'.kind = "naverror") <=> (n = max_navigation_retries /\ ~nav[n])
             /\ iter'.kind = "naverror" =>
                    consecutive_failures'[f] = consecutive_failures[f] + 1]_vars

\* the page loaded at the third attempt, after two pauses
C24_Witness ==
    /\ iter.kind = "promoted"
    /\ iter.acq.nav = <<FALSE, FALSE, TRUE>>
    /\ iter.acq.paused = 2 * NavigationPause
    /\ consecutive_failures[iter.f] = 0

\* C30: every webdriver instance created during an iteration, those whose
\* about:blank test failed included, has been quit when the iteration ends.
C30_DriversQuitEachIteration ==
    [][\A f \in Feeds : IterStep(f) => iter'.acq.quit = iter'.acq.created]_vars

(***************************************************************************)
(* Properties of the requests (checked under SpecGateway).                 *)
(***************************************************************************)
\* a step in which a handler answered a request, admitted or rejected
RequestStep ==
    /\ resp'.ep \in Endpoints
    /\ iter' = NoIter
    /\ now' = now
    /\ resp' # resp \/ iter' # iter \/ reqlog' # reqlog

\* C21: a request to the water-level, the rainfall or the health endpoint,
\* with or without a date, admitted or rejected, changes no feed state, writes
\* nothing to the store and starts no thread and no acquisition; it changes at
\* most the rate counters of its caller.
C21_RequestsChangeNothing ==
    [][RequestStep =>
          /\ UNCHANGED <<feedVars, storeVars, threadVars, scraping_active, db_ok, booted>>
          /\ \A ip \in IPs : ~RequestOf(ip) => request_counts'[ip] = request_counts[ip]]_vars

\* the caller was rejected while the water-level feed holds a snapshot that
\* was written to the store
C21_Witness ==
    /\ resp.code = 429
    /\ reqlog["ip1"].n > requests_per_minute
    /\ latest_data["water"] # None
    /\ latest_doc["water"] # None
    /\ thread["water"] = "alive"

(***************************************************************************)
(* Properties of the threads (checked under SpecLife).                     *)
(***************************************************************************)
\* C27: at every moment each feed has at most one live worker thread, and it
\* is the one that water_thread (rainfall_thread) refers to.
C27_OneLiveWorkerPerFeed ==
    \A f \in Feeds :
        /\ live_workers[f] <= 1
        /\ live_workers[f] = 1 <=> thread[f] \in Running

\* both workers died and both were replaced by the monitor
C27_Witness ==
    \A f \in Feeds :
        /\ thread[f] = "started"
        /\ latest_data[f] # None
        /\ live_workers[f] = 1

\* C28: while the run flag is set the monitor thread, once started, stays
\* alive and its next poll stays possible, whatever the workers do and
\* whenever a restart raises; it ends only with the run flag cleared.
C28_MonitorKeepsPolling ==
    /\ [][(monitor = "alive" /\ scraping_active') => monitor' = "alive"]_vars
    /\ []((monitor = "alive" /\ scraping_active) => ENABLED MonitorPoll("none"))

\* the restart of the water-level worker raised at two polls in a row, and
\* the monitor is alive
C28_Witness ==
    /\ polls_dead["water"] = 2
    /\ thread["water"] = "dead"
    /\ monitor = "alive"
    /\ scraping_active

(***************************************************************************)
(* Properties of concurrently handled requests (checked under              *)
(* SpecThreaded).                                                          *)
(***************************************************************************)
\* C26: under every interleaving of the requests of one caller on the handler
\* threads, the number of requests admitted inside one minute window never
\* exceeds the minute limit, and when no request is between its admission
\* and its increment the stored count is the number of requests admitted.
C26_CountersMutuallyExclusive ==
    \A ip \in RateCallers :
        /\ reqlog[ip].recent[2] <= requests_per_minute
        /\ (\A h \in HandlerThreads : handler_threads[h].pc = "idle")
              => (request_counts[ip] # None
                    => request_counts[ip][1].minute.count = reqlog[ip].recent[2])

(***************************************************************************)
(* Properties of the readers of the latest data (checked under SpecCache). *)
(***************************************************************************)
\* C25: a request for the latest data that runs while the worker promotes
\* answers with the readings and the last_updated of one and the same
\* snapshot: the last_updated it returns is the search time that the rows it
\* returns carry.
C25_ReadersSeeWholeSnapshot ==
    [][\A h \in HandlerThreads :
          (handler_threads[h].pc = "read_data" /\ handler_threads'[h].pc = "idle")
             => last_updated = Some(handler_threads[h].data[1][1].timestamp)]_vars

(***************************************************************************)
(* Properties of the run flag (checked under SpecShutdown).                *)
(***************************************************************************)
\* C29: a worker that is in a sleep when the run flag has been cleared can
\* stop at once, without waiting for the sleep to return; and once the flag
\* has been cleared no worker begins an iteration.
C29_SleepsObserveRunFlag ==
    /\ [](\A f \in Feeds :
            (~scraping_active /\ thread[f] \in Running /\ now < sleep_until[f])
               => ENABLED TimedExit(f))
    /\ [][\A f \in Feeds : ~scraping_active => ~IterStep(f)]_vars

(***************************************************************************)
(* Properties of the dates documents and the index page (checked under     *)
(* SpecStore).                                                             *)
(***************************************************************************)
\* C31: for each feed, the dates document that a promotion updates is the
\* document from which the index page reads that feed's dates: after a
\* promotion of the feed whose three writes succeeded, the date of the
\* promotion is in the feed's dates as index reads them.
C31_IndexReadsPromotedDates ==
    [][\A f \in Feeds : (IterStep(f) /\ iter'.kind = "promoted" /\ iter'.writes = 3) =>
          LET date_str == SaveDate(iter'.data[1].timestamp, now) IN
          /\ DatesName(CollectionOf(f)) = IndexDatesName(f)
          /\ DateText(date_str) \in Range(IndexDates(f)')]_vars

\* C32: every date in the dates document of a feed is a date for which the
\* dated document of that feed exists, so that a request for that date is not
\* answered 404.
C32_IndexedDatesHaveSnapshots ==
    \A f \in Feeds :
        LET name == DatesName(CollectionOf(f)) IN
        dates_docs[name] # None =>
            \A i \in DOMAIN dates_docs[name][1] :
                LET day == dates_docs[name][1][i].day IN
                /\ dated_docs[<<f, day>>] # None
                /\ get(f, ADate(day)).code # 404

(***************************************************************************)
(* Properties of rejected requests (checked under SpecHourly).             *)
(***************************************************************************)
\* C33: a request that is rejected with 429, by the minute limit or by the
\* hour limit, leaves the counters of its caller as they were: the count and
\* the window start of the minute window and of the hour window.
C33_RejectionLeavesCounters ==
    [][\A ip \in IPs : (RequestOf(ip) /\ resp'.code = 429) =>
          request_counts'[ip] = request_counts[ip]]_vars

(***************************************************************************)
(* Properties of the health endpoint's failures (checked under             *)
(* SpecService).                                                           *)
(***************************************************************************)
\* C34: in every state the workers can produce, a search time that is not
\* in the "%Y-%m-%d %H:%M" form included, health_check answers healthy,
\* warning or the run-flag error, and no health request is answered 500.
C34_HealthNeverInternalError ==
    /\ health_check.code # 500
    /\ health_check.status \in {"healthy", "warning", "error"}
    /\ resp.ep = "health" => resp.code # 500

====
